---------------------------- MODULE Spec2Model ----------------------------
(***************************************************************************)
(* The client-side synchronisation core of the WorkBoards front end         *)
(* (src/frontend/src/App.js, BoardView and useWebSocket): the item cache    *)
(* `items`, the optimistic edits (KanbanCard.commit, moveItem), soft delete *)
(* with undo, item creation, the realtime event handler, the refetch and    *)
(* the fallback poller.  The HTTP back end is not part of the sources; it   *)
(* is modelled from the design document as a store that applies a patch,    *)
(* answers with the item's full snapshot and broadcasts one event a write.  *)
(***************************************************************************)
EXTENDS Integers, Sequences, FiniteSets, TLC

VARIABLES
    items,          \* BoardView state `items`: the cache, a list of item snapshots
    showDeleted,    \* BoardView state `showDeleted`
    connected,      \* useWebSocket state `connected`
    sock,           \* the WebSocket: "connecting", "open" or "closed"
    events,         \* push messages sent by the server and not yet handled
    reqs,           \* every HTTP request issued so far, with its continuation's closure
    server,         \* the server's store: item id -> snapshot (NoItem when not created)
    remoteWrites,   \* number of writes other participants have made
    clock,          \* Date.now(), in units of 1000 ms
    pollAt,         \* when the poll interval fires next (NoTime: not armed)
    pingAt,         \* when the heartbeat interval fires next
    ping,           \* what the latest heartbeat's ws.send("ping") came to
    link,           \* the connection under the socket: "up", or "dead" (half-open)
    reorderCounter, \* the ref reorderCounter.current: lane -> drops counted so far
    board,          \* App state `currentBoard`: the id of the board that is open
    oldSock,        \* the socket of the board that was open before: "none" while no
                    \* board was left, "closing" once ws.close() was called, "closed"
    pollBoard,      \* the board whose items the poll interval's refetch asks for
    pingBoard       \* the board whose socket the heartbeat interval sends on

\* the timers and what they act on
timers == <<pollAt, pingAt, ping, link>>

\* the open board, the socket left behind, and the boards the intervals belong to
opened == <<board, oldSock, pollBoard, pingBoard>>

vars == <<items, showDeleted, connected, sock, events, reqs, server, remoteWrites, clock,
          pollAt, pingAt, ping, link, reorderCounter, board, oldSock, pollBoard,
          pingBoard>>

----------------------------------------------------------------------------
(* Bounds of the model *)

\* requests the user and the timers may issue (the automatic undo is not counted)
MaxReq == 2
\* writes by other participants
MaxRemote == 1
\* how far the clock runs where time passes
MaxClock == 30
\* data rows of an imported file
MaxRows == 1
\* entries of a cache and frames received, where the event handler is checked alone
MaxLen == 2
MaxFrames == 2
\* drops on one lane, where repeated insertion is checked
MaxInserts == 10

----------------------------------------------------------------------------
(* Values *)

BoardId == "A"
OtherBoardId == "B"
Groups == {"g1"}
STATUSES == {"Todo", "Doing"}
\* the lanes of the board, named as maybeCompact's key `${groupId}:${status}`
Lanes == Groups \X STATUSES
Names == {"a", "b"}
\* the item identities the server can hand out, and those of the items the board
\* holds when it is opened
Ids == {1, 2, 3}
InitIds == {1, 2}

\* deletedAt of an item that is not deleted (null); also a timer that is not armed
NoTime == -1
\* setInterval(() => refetch(), 5000)
PollInterval == 5
\* setInterval(() => { try { ws.send("ping"); } catch {} }, 15000)
HeartbeatInterval == 15
\* fixed-point orders: OrderUnit stands for 1.0
OrderUnit == 1024
\* desiredOrder of a moveItem call that passes none (null)
NoOrder == -1
\* Date.now() as an order value: far above every order the lanes hold
NowOrder == (1000 + clock) * OrderUnit

NoItem == [id |-> 0, boardId |-> "", groupId |-> "", status |-> "", order |-> 0,
           name |-> "", deleted |-> FALSE, deletedAt |-> NoTime]

NewItem(id, groupId, status, order, name) ==
    [id |-> id, boardId |-> BoardId, groupId |-> groupId, status |-> status,
     order |-> order, name |-> name, deleted |-> FALSE, deletedAt |-> NoTime]

\* no patch (requests that carry none)
NoPatch == [none |-> TRUE]

----------------------------------------------------------------------------
(* The cache operations the handlers apply inside setItems(prev => ...) *)

\* { ...x, ...patch }
Merge(x, patch) ==
    [f \in DOMAIN x |-> IF f \in DOMAIN patch THEN patch[f] ELSE x[f]]

\* a patch applied to every entry, whatever its id
PatchEveryItem(prev, id, patch) == [k \in DOMAIN prev |-> Merge(prev[k], patch)]

\* prev.map(x => x.id === id ? f(x) : x) with f(x) = { ...x, ...patch }
PatchItems(prev, id, patch) ==
    [k \in DOMAIN prev |-> IF prev[k].id = id THEN Merge(prev[k], patch) ELSE prev[k]]

\* an update that adds the item instead of replacing it
AppendItems(prev, it) == Append(prev, it)

\* prev.map(x => x.id === it.id ? it : x)
ReplaceItems(prev, it) ==
    [k \in DOMAIN prev |-> IF prev[k].id = it.id THEN it ELSE prev[k]]

\* prev.filter(x => x.id !== id)
FilterItems(prev, id) == SelectSeq(prev, LAMBDA x : x.id # id)

\* prev.some(x => x.id === id)
Exists(prev, id) == \E k \in DOMAIN prev : prev[k].id = id

\* exists ? prev.map(x => x.id === it.id ? it : x) : [...prev, it]
UpsertItems(prev, it) ==
    IF Exists(prev, it.id) THEN ReplaceItems(prev, it) ELSE Append(prev, it)

\* the cards on screen: the items that pass (showDeleted || !it.deleted)
Rendered == { items[k] : k \in { j \in DOMAIN items : showDeleted \/ ~items[j].deleted } }


----------------------------------------------------------------------------
(* HTTP requests.  A request keeps what its continuation's closure holds:   *)
(* `item` is the snapshot the handler was called with (the card's `it`),    *)
(* `patch` the body sent, `incl` the showDeleted the handler saw (the       *)
(* includeDeleted parameter of a refetch).                                  *)
(* stage: "sent" -> "answered" (ok tells success) -> "done" (continuation   *)
(* has run).  toast is the Undo toast of a delete; `auto` marks the undo    *)
(* started by a failed delete, and `of` the delete an undo belongs to.      *)

Req(kind, item, patch) ==
    [kind |-> kind, item |-> item, patch |-> patch, stage |-> "sent", ok |-> FALSE,
     resp |-> NoItem, list |-> <<>>, incl |-> FALSE, toast |-> "none",
     auto |-> FALSE, of |-> 0, board |-> board]

Rids == DOMAIN reqs

\* a settled request whose continuation has run: its closure is released; the
\* closure of a delete lives as long as its toast can still call undo, and the lane
\* of a compaction request stays on record
Settle(r) ==
    IF r.kind = "delete" /\ r.toast = "open"
    THEN [r EXCEPT !.stage = "done", !.resp = NoItem]
    ELSE [r EXCEPT !.stage = "done", !.resp = NoItem, !.list = <<>>,
                   !.patch = IF r.kind = "compact" THEN r.patch ELSE NoPatch,
                   !.item = [NoItem EXCEPT !.id = r.item.id]]

Closed(r) == IF r.stage = "done" THEN Settle([r EXCEPT !.toast = "closed"])
             ELSE [r EXCEPT !.toast = "closed"]

\* requests issued by the user or a timer
Issued == Len(SelectSeq(reqs, LAMBDA r : ~r.auto))

CanIssue == Issued < MaxReq

\* axios.get(`${API}/boards/${board.id}/items`, { headers: h, params })
RefetchReq(includeDeleted) == [Req("refetch", NoItem, NoPatch) EXCEPT !.incl = includeDeleted]

----------------------------------------------------------------------------
(* The server, modelled from the design document *)

\* patchItem(id, fields): merge the fields; the tombstone fields go together
ServerApply(it, patch) ==
    LET m == Merge(it, patch) IN
    IF "deleted" \in DOMAIN patch
    THEN [m EXCEPT !.deletedAt = IF patch.deleted THEN clock ELSE NoTime]
    ELSE m

\* the kind of event a write is broadcast as
EventType(patch) ==
    IF "deleted" \in DOMAIN patch
    THEN (IF patch.deleted THEN "item.deleted" ELSE "item.restored")
    ELSE "item.updated"

\* a message reaches this client only over an open socket
Broadcast(type, it) ==
    IF sock = "open" /\ it.boardId = board
    THEN Append(events, [type |-> type, item |-> it]) ELSE events

\* the board's items as the list endpoint returns them
RECURSIVE ListOf(_, _, _)
ListOf(store, ids, includeDeleted) ==
    IF ids = {} THEN <<>>
    ELSE LET i == CHOOSE x \in ids : \A y \in ids : x <= y
             rest == ListOf(store, ids \ {i}, includeDeleted) IN
         IF store[i] # NoItem /\ (includeDeleted \/ ~store[i].deleted)
         THEN <<store[i]>> \o rest ELSE rest

ServerList(includeDeleted) == ListOf(server, Ids, includeDeleted)

\* GET /boards/:id/items: the items of that board
BoardList(boardId, includeDeleted) ==
    SelectSeq(ServerList(includeDeleted), LAMBDA x : x.boardId = boardId)

FreeIds == { i \in Ids : server[i] = NoItem }

\* the server handles a PATCH /items/:id
ServerPatch(r) ==
    /\ reqs[r].stage = "sent"
    /\ reqs[r].kind \in {"commit", "table", "move", "delete", "undo"}
    /\ LET id == reqs[r].item.id
           new == ServerApply(server[id], reqs[r].patch) IN
       /\ server' = [server EXCEPT ![id] = new]
       /\ reqs' = [reqs EXCEPT ![r].stage = "answered", ![r].ok = TRUE, ![r].resp = new]
       /\ events' = Broadcast(EventType(reqs[r].patch), new)
    /\ UNCHANGED <<items, showDeleted, connected, sock, remoteWrites, clock, timers,
                   reorderCounter, opened>>

\* the server handles a POST /boards/:id/items
ServerCreate(r) ==
    /\ reqs[r].stage = "sent"
    /\ reqs[r].kind = "create"
    /\ FreeIds # {}
    /\ LET id == CHOOSE i \in FreeIds : \A j \in FreeIds : i <= j
           p == reqs[r].patch
           new == NewItem(id, p.groupId, p.status, p.order, p.name) IN
       /\ server' = [server EXCEPT ![id] = new]
       /\ reqs' = [reqs EXCEPT ![r].stage = "answered", ![r].ok = TRUE, ![r].resp = new]
       /\ events' = Broadcast("item.created", new)
    /\ UNCHANGED <<items, showDeleted, connected, sock, remoteWrites, clock, timers,
                   reorderCounter, opened>>

\* the server handles a GET /boards/:id/items
ServerGet(r) ==
    /\ reqs[r].stage = "sent"
    /\ reqs[r].kind = "refetch"
    /\ reqs' = [reqs EXCEPT ![r].stage = "answered", ![r].ok = TRUE,
                            ![r].list = BoardList(reqs[r].board, reqs[r].incl)]
    /\ UNCHANGED <<items, showDeleted, connected, sock, events, server, remoteWrites,
                   clock, timers, reorderCounter, opened>>

\* a request is rejected or lost: the store is not changed and the promise rejects
RequestFails(r) ==
    /\ reqs[r].stage = "sent"
    /\ reqs' = [reqs EXCEPT ![r].stage = "answered", ![r].ok = FALSE]
    /\ UNCHANGED <<items, showDeleted, connected, sock, events, server, remoteWrites,
                   clock, timers, reorderCounter, opened>>

\* another participant renames, deletes or restores an item
RemoteWrite(id, patch) ==
    /\ remoteWrites < MaxRemote
    /\ server[id] # NoItem
    /\ LET new == ServerApply(server[id], patch) IN
       /\ server' = [server EXCEPT ![id] = new]
       /\ events' = Broadcast(EventType(patch), new)
    /\ remoteWrites' = remoteWrites + 1
    /\ UNCHANGED <<items, showDeleted, connected, sock, reqs, clock, timers, reorderCounter,
                   opened>>

RemotePatches == { [name |-> "b"], [deleted |-> TRUE] }

----------------------------------------------------------------------------
(* User intents *)

\* KanbanCard.commit(patch), up to its await
Commit(it, patch) ==
    /\ CanIssue
    /\ it \in Rendered
    /\ items' = PatchItems(items, it.id, patch)
    /\ reqs' = Append(reqs, Req("commit", it, patch))
    /\ UNCHANGED <<showDeleted, connected, sock, events, server, remoteWrites, clock,
                   timers, reorderCounter, opened>>

\* the patches the card's controls commit (a changed name, another status)
CommitPatches(it) ==
    { [name |-> n] : n \in Names \ {it.name} } \cup { [status |-> s] : s \in STATUSES \ {it.status} }

\* a softDelete that waits for the response before it touches the cache
SoftDeleteItemsLate(prev, id, show) == prev

\* softDelete(item), up to its await
SoftDeleteItems(prev, id, show) ==
    IF show
    THEN PatchItems(prev, id, [deleted |-> TRUE, deletedAt |-> clock])
    ELSE FilterItems(prev, id)

SoftDelete(it) ==
    /\ CanIssue
    /\ it \in Rendered
    /\ items' = SoftDeleteItems(items, it.id, showDeleted)
    /\ reqs' = Append(reqs, [Req("delete", it, [deleted |-> TRUE])
                                EXCEPT !.toast = "open", !.incl = showDeleted])
    /\ UNCHANGED <<showDeleted, connected, sock, events, server, remoteWrites, clock,
                   timers, reorderCounter, opened>>

\* undo(), up to its await: the compensating request of delete d
UndoReq(d, auto) ==
    [Req("undo", reqs[d].item, [deleted |-> FALSE]) EXCEPT !.auto = auto, !.of = d]

\* the user clicks Undo in the toast of delete d, which closes the toast
UndoClick(d) ==
    /\ CanIssue
    /\ reqs[d].kind = "delete"
    /\ reqs[d].toast = "open"
    /\ reqs' = Append([reqs EXCEPT ![d] = Closed(reqs[d])], UndoReq(d, FALSE))
    /\ UNCHANGED <<items, showDeleted, connected, sock, events, server, remoteWrites,
                   clock, timers, reorderCounter, opened>>

\* the toast's duration (5000 ms) has passed
ToastExpire(d) ==
    /\ reqs[d].kind = "delete"
    /\ reqs[d].toast = "open"
    /\ reqs' = [reqs EXCEPT ![d] = Closed(reqs[d])]
    /\ UNCHANGED <<items, showDeleted, connected, sock, events, server, remoteWrites,
                   clock, timers, reorderCounter, opened>>

\* createItem(groupId, name, statusOpt), up to its await
CreateItem(groupId, status, name) ==
    /\ CanIssue
    /\ reqs' = Append(reqs, Req("create", NoItem,
                 [name |-> name, groupId |-> groupId, order |-> NowOrder, status |-> status]))
    /\ UNCHANGED <<items, showDeleted, connected, sock, events, server, remoteWrites,
                   clock, timers, reorderCounter, opened>>

\* the Show deleted switch: the refetch callback changes, so the load effect runs again
\* and the poll effect sets its interval anew
ToggleShowDeleted ==
    /\ CanIssue
    /\ showDeleted' = ~showDeleted
    /\ reqs' = Append(reqs, RefetchReq(~showDeleted))
    /\ pollAt' = (IF connected THEN NoTime ELSE clock + PollInterval)
    /\ UNCHANGED <<items, connected, sock, events, server, remoteWrites, clock,
                   pingAt, ping, link, reorderCounter, opened>>

\* the poll timer (armed while not connected) fires, at a time left open
Poll ==
    /\ CanIssue
    /\ ~connected
    /\ reqs' = Append(reqs, [RefetchReq(showDeleted) EXCEPT !.board = pollBoard])
    /\ UNCHANGED <<items, showDeleted, connected, sock, events, server, remoteWrites,
                   clock, timers, reorderCounter, opened>>

----------------------------------------------------------------------------
(* Continuations: what runs when a request's promise settles *)

\* a continuation that puts the response into the cache when the item is not there
CommitDoneItemsUpserts(prev, r) == IF r.ok THEN UpsertItems(prev, r.resp) ELSE prev

\* a continuation that keeps the optimistic entry instead of the response
CommitDoneItemsKeepsPrev(prev, r) == prev

\* commit after its await: setItems(prev => prev.map(x => x.id === it.id ? upd : x));
\* a rejection leaves the handler (there is no catch)
CommitDoneItems(prev, r) ==
    IF r.ok
    THEN [k \in DOMAIN prev |-> IF prev[k].id = r.item.id THEN r.resp ELSE prev[k]]
    ELSE prev

CommitDone(r) ==
    /\ reqs[r].kind = "commit"
    /\ reqs[r].stage = "answered"
    /\ items' = CommitDoneItems(items, reqs[r])
    /\ reqs' = [reqs EXCEPT ![r] = Settle(reqs[r])]
    /\ UNCHANGED <<showDeleted, connected, sock, events, server, remoteWrites, clock,
                   timers, reorderCounter, opened>>

\* softDelete after its await: nothing on success, catch (e) { await undo(); } on failure
DeleteDone(r) ==
    /\ reqs[r].kind = "delete"
    /\ reqs[r].stage = "answered"
    /\ reqs' = IF reqs[r].ok
               THEN [reqs EXCEPT ![r] = Settle(reqs[r])]
               ELSE Append([reqs EXCEPT ![r] = Settle(reqs[r])], UndoReq(r, TRUE))
    /\ UNCHANGED <<items, showDeleted, connected, sock, events, server, remoteWrites,
                   clock, timers, reorderCounter, opened>>

\* undo after its await: upsert of the response; a rejection leaves the handler
\* an undo that replaces like the edit handlers do and never inserts
UndoDoneItemsNoInsert(prev, r) == IF r.ok THEN ReplaceItems(prev, r.resp) ELSE prev

UndoDoneItems(prev, r) == IF r.ok THEN UpsertItems(prev, r.resp) ELSE prev

UndoDone(r) ==
    /\ reqs[r].kind = "undo"
    /\ reqs[r].stage = "answered"
    /\ items' = UndoDoneItems(items, reqs[r])
    /\ reqs' = [reqs EXCEPT ![r] = Settle(reqs[r])]
    /\ UNCHANGED <<showDeleted, connected, sock, events, server, remoteWrites, clock,
                   timers, reorderCounter, opened>>

\* createItem after its await: setItems(prev => [...prev, it])
CreateDone(r) ==
    /\ reqs[r].kind = "create"
    /\ reqs[r].stage = "answered"
    /\ items' = IF reqs[r].ok THEN Append(items, reqs[r].resp) ELSE items
    /\ reqs' = [reqs EXCEPT ![r] = Settle(reqs[r])]
    /\ UNCHANGED <<showDeleted, connected, sock, events, server, remoteWrites, clock,
                   timers, reorderCounter, opened>>

\* a refetch that keeps the cached entries the response does not hold
RECURSIVE RefetchDoneItemsUpserts(_, _)
RefetchDoneItemsUpserts(prev, r) ==
    IF ~r.ok \/ r.list = <<>> THEN prev
    ELSE RefetchDoneItemsUpserts(UpsertItems(prev, Head(r.list)),
                                 [r EXCEPT !.list = Tail(r.list)])

\* refetch's .then((r) => setItems(r.data)); there is no handler for a rejection
RefetchDoneItems(prev, r) == IF r.ok THEN r.list ELSE prev

\* refetch: .then((r) => setItems(r.data))
RefetchDone(r) ==
    /\ reqs[r].kind = "refetch"
    /\ reqs[r].stage = "answered"
    /\ items' = RefetchDoneItems(items, reqs[r])
    /\ reqs' = [reqs EXCEPT ![r] = Settle(reqs[r])]
    /\ UNCHANGED <<showDeleted, connected, sock, events, server, remoteWrites, clock,
                   timers, reorderCounter, opened>>

----------------------------------------------------------------------------
(* The push channel *)

\* a handler that does not look at the item's board
ReduceAnyBoard(prev, msg, show) ==
    LET it == msg.item IN
    IF it = NoItem THEN prev
    ELSE IF msg.type = "item.created" THEN Append(prev, it)
    ELSE IF msg.type = "item.updated" THEN ReplaceItems(prev, it)
    ELSE IF msg.type = "item.deleted"
         THEN (IF show THEN ReplaceItems(prev, it) ELSE FilterItems(prev, it.id))
    ELSE IF msg.type = "item.restored" THEN UpsertItems(prev, it)
    ELSE prev

\* the wb:ws handler of BoardView applied to message msg
Reduce(prev, msg, show) ==
    LET it == msg.item IN
    IF it = NoItem \/ it.boardId # board THEN prev
    ELSE IF msg.type = "item.created" THEN Append(prev, it)
    ELSE IF msg.type = "item.updated" THEN ReplaceItems(prev, it)
    ELSE IF msg.type = "item.deleted"
         THEN (IF show THEN ReplaceItems(prev, it) ELSE FilterItems(prev, it.id))
    ELSE IF msg.type = "item.restored" THEN UpsertItems(prev, it)
    ELSE prev

\* JSON.parse(ev.data) returns a message (it does not throw)
Parses(frame) == frame.type # "garbage"

\* an onmessage that gives up the socket when a frame does not parse
WsMessageStrict ==
    /\ sock = "open"
    /\ events # <<>>
    /\ items' = (IF Parses(Head(events)) THEN Reduce(items, Head(events), showDeleted)
                 ELSE items)
    /\ events' = Tail(events)
    /\ sock' = (IF Parses(Head(events)) THEN sock ELSE "closed")
    /\ connected' = Parses(Head(events))
    /\ UNCHANGED <<showDeleted, reqs, server, remoteWrites, clock, timers, reorderCounter, opened>>

\* ws.onmessage: the next frame is parsed and, unless that throws, dispatched and handled
WsMessage ==
    /\ sock = "open"
    /\ events # <<>>
    /\ items' = (IF Parses(Head(events)) THEN Reduce(items, Head(events), showDeleted)
                 ELSE items)
    /\ events' = Tail(events)
    /\ UNCHANGED <<showDeleted, connected, sock, reqs, server, remoteWrites, clock, timers,
                   reorderCounter, opened>>

\* a poller that keeps running once the connection is up
WsOpenKeepsPolling ==
    /\ sock = "connecting"
    /\ sock' = "open"
    /\ connected' = TRUE
    /\ UNCHANGED <<items, showDeleted, events, reqs, server, remoteWrites, clock, timers,
                   reorderCounter, opened>>

\* ws.onopen: connected becomes true and the poll effect's cleanup clears its interval
WsOpen ==
    /\ sock = "connecting"
    /\ sock' = "open"
    /\ connected' = TRUE
    /\ pollAt' = NoTime
    /\ UNCHANGED <<items, showDeleted, events, reqs, server, remoteWrites, clock,
                   pingAt, ping, link, reorderCounter, opened>>

\* an onclose that opens a new socket for the board
WsCloseReconnects ==
    /\ sock \in {"connecting", "open"}
    /\ sock' = "connecting"
    /\ connected' = FALSE
    /\ events' = <<>>
    /\ pollAt' = (IF connected THEN clock + PollInterval ELSE pollAt)
    /\ link' = "up"
    /\ UNCHANGED <<items, showDeleted, reqs, server, remoteWrites, clock, pingAt, ping,
                   reorderCounter, opened>>

\* ws.onclose / ws.onerror: messages still under way are lost; when connected turns
\* false the poll effect runs again and sets its interval
WsClose ==
    /\ sock \in {"connecting", "open"}
    /\ sock' = "closed"
    /\ connected' = FALSE
    /\ events' = <<>>
    /\ pollAt' = (IF connected THEN clock + PollInterval ELSE pollAt)
    /\ link' = "up"
    /\ UNCHANGED <<items, showDeleted, reqs, server, remoteWrites, clock, pingAt, ping,
                   reorderCounter, opened>>

----------------------------------------------------------------------------
(* Table rows and moves *)

\* a lane shown in the cache's order
NoSort(s) == s

\* Array.prototype.sort by (a.order || 0) - (b.order || 0), which is stable
RECURSIVE SortByOrder(_)
SortByOrder(s) ==
    IF s = <<>> THEN <<>>
    ELSE LET x == s[Len(s)]
             front == SortByOrder(SubSeq(s, 1, Len(s) - 1)) IN
         SelectSeq(front, LAMBDA y : y.order <= x.order)
         \o <<x>> \o SelectSeq(front, LAMBDA y : y.order > x.order)

\* items.filter(it => it.groupId === groupId && it.status === status &&
\* (showDeleted || !it.deleted)).sort(...) for a cache `prev`
LaneOf(prev, groupId, status) ==
    SortByOrder(SelectSeq(prev, LAMBDA it : /\ it.groupId = groupId
                                            /\ it.status = status
                                            /\ (showDeleted \/ ~it.deleted)))

\* laneItems(groupId, status) over the cache
laneItems(groupId, status) == LaneOf(items, groupId, status)

\* a table row's onCommit / onChange, up to its await: the cache is not touched
TableCommit(it, patch) ==
    /\ CanIssue
    /\ it \in Rendered
    /\ reqs' = Append(reqs, Req("table", it, patch))
    /\ UNCHANGED <<items, showDeleted, connected, sock, events, server, remoteWrites, clock,
                   timers, reorderCounter, opened>>

\* a table row's handler after its await: setItems(prev => prev.map(x => x.id === upd.id
\* ? upd : x)); a rejection leaves the handler
TableDone(r) ==
    /\ reqs[r].kind = "table"
    /\ reqs[r].stage = "answered"
    /\ items' = (IF reqs[r].ok THEN ReplaceItems(items, reqs[r].resp) ELSE items)
    /\ reqs' = [reqs EXCEPT ![r] = Settle(reqs[r])]
    /\ UNCHANGED <<showDeleted, connected, sock, events, server, remoteWrites, clock,
                   timers, reorderCounter, opened>>

\* the order moveItem gives the item: the one asked for, else behind the target lane's
\* last item, else Date.now()
MoveOrder(toGroupId, toStatus, desiredOrder) ==
    LET target == laneItems(toGroupId, toStatus) IN
    IF desiredOrder # NoOrder THEN desiredOrder
    ELSE IF target # <<>> THEN target[Len(target)].order + OrderUnit
    ELSE NowOrder

\* moveItem(item, toGroupId, toStatus, desiredOrder), up to its await
MoveItem(item, toGroupId, toStatus, desiredOrder) ==
    /\ CanIssue
    /\ item \in Rendered
    /\ LET patch == [groupId |-> toGroupId, status |-> toStatus,
                     order |-> MoveOrder(toGroupId, toStatus, desiredOrder)] IN
       /\ items' = PatchItems(items, item.id, patch)
       /\ reqs' = Append(reqs, Req("move", item, patch))
    /\ UNCHANGED <<showDeleted, connected, sock, events, server, remoteWrites, clock,
                   timers, reorderCounter, opened>>

\* the orders a drop asks for: none, or one between the first two items
MoveOrders == { NoOrder, (3 * OrderUnit) \div 2 }

\* moveItem after its await: the response replaces the entry; catch { /*ignore*/ }
MoveDone(r) ==
    /\ reqs[r].kind = "move"
    /\ reqs[r].stage = "answered"
    /\ items' = (IF reqs[r].ok THEN ReplaceItems(items, reqs[r].resp) ELSE items)
    /\ reqs' = [reqs EXCEPT ![r] = Settle(reqs[r])]
    /\ UNCHANGED <<showDeleted, connected, sock, events, server, remoteWrites, clock,
                   timers, reorderCounter, opened>>

----------------------------------------------------------------------------
(* Drops on a lane of the kanban view.  Orders are fixed-point numbers with  *)
(* OrderUnit steps to 1.0: like a double, a sum that falls between two       *)
(* representable values is rounded to one of them.                           *)

\* the lane has a card before the drop position idx (idx > 0) / at it (idx < lane.length)
HasPrev(lane, idx) == idx > 0
HasNext(lane, idx) == idx < Len(lane)

\* prev = lane[idx-1].order and next = lane[idx].order, lane counted from 0
PrevOrder(lane, idx) == lane[idx].order
NextOrder(lane, idx) == lane[idx + 1].order

\* an allocator that puts the card one step behind prev whenever there is a prev
NewOrderBehindPrev(lane, idx) ==
    IF HasPrev(lane, idx) THEN PrevOrder(lane, idx) + OrderUnit
    ELSE IF HasNext(lane, idx) THEN NextOrder(lane, idx) - OrderUnit
    ELSE NowOrder

\* onDrop's newOrder: Date.now(), next - 1, prev + 1 or (prev + next) / 2
NewOrder(lane, idx) ==
    IF ~HasPrev(lane, idx) /\ ~HasNext(lane, idx) THEN NowOrder
    ELSE IF ~HasPrev(lane, idx) THEN NextOrder(lane, idx) - OrderUnit
    ELSE IF ~HasNext(lane, idx) THEN PrevOrder(lane, idx) + OrderUnit
    ELSE (PrevOrder(lane, idx) + NextOrder(lane, idx)) \div 2

\* the thresholds of maybeCompact: gap < 1e-3, counter % 10 === 0
GapPerUnit == 1000
CompactEvery == 10

\* maybeCompact's gap: Math.abs(next - prev) when both are there, else 1
Gap(lane, idx) ==
    IF HasPrev(lane, idx) /\ HasNext(lane, idx)
    THEN (IF NextOrder(lane, idx) >= PrevOrder(lane, idx)
          THEN NextOrder(lane, idx) - PrevOrder(lane, idx)
          ELSE PrevOrder(lane, idx) - NextOrder(lane, idx))
    ELSE OrderUnit

\* a trigger that looks at the counter only
ShouldCompactByCount(gap, count) == count % CompactEvery = 0

\* a trigger that looks at the gap only
ShouldCompactByGap(gap, count) == gap * GapPerUnit < OrderUnit

\* gap < 1e-3 || reorderCounter.current[key] % 10 === 0, count being the lane's
\* counter after its increment
ShouldCompact(gap, count) ==
    \/ gap * GapPerUnit < OrderUnit
    \/ count % CompactEvery = 0

\* axios.post(`${API}/boards/${board.id}/order/compact`, { groupId, status })
CompactReq(groupId, status) ==
    [Req("compact", NoItem, [groupId |-> groupId, status |-> status]) EXCEPT !.auto = TRUE]

\* items.find(x => x.id === itemId)
Find(prev, id) == prev[CHOOSE k \in DOMAIN prev :
                          prev[k].id = id /\ \A j \in 1..(k - 1) : prev[j].id # id]

\* a drop that sends the order it computed and leaves the cache for the response
DropItemsLate(prev, id, patch) == prev

\* moveItem's setItems(prev => prev.map(i => i.id === item.id ? { ...i, groupId,
\* status, order } : i)) for the dropped card
DropItems(prev, id, patch) == PatchItems(prev, id, patch)

\* onDrop of lane (groupId, status) with the card of item id dropped at position idx
\* of the lane's cards: the new order from the neighbours, then moveItem up to its
\* await (optimistic patch, PATCH sent) and maybeCompact up to its await (the lane's
\* counter, the compaction request when the trigger says so)
Drop(id, groupId, status, idx) ==
    /\ Exists(items, id)
    /\ LET lane == laneItems(groupId, status) IN
       /\ idx \in 0..Len(lane)
       /\ LET it == Find(items, id)
              patch == [groupId |-> groupId, status |-> status,
                        order |-> NewOrder(lane, idx)]
              count == reorderCounter[<<groupId, status>>] + 1
              move == <<Req("move", it, patch)>>
              compact == IF ShouldCompact(Gap(lane, idx), count)
                         THEN <<CompactReq(groupId, status)>> ELSE <<>> IN
          /\ items' = DropItems(items, id, patch)
          /\ reqs' = reqs \o move \o compact
          /\ reorderCounter' = [reorderCounter EXCEPT ![<<groupId, status>>] = count]
    /\ UNCHANGED <<showDeleted, connected, sock, events, server, remoteWrites, clock, timers,
                   opened>>

\* the server's lane (groupId, status) in ascending order, ties by id
RECURSIVE ServerLane(_, _, _)
ServerLane(ids, groupId, status) ==
    IF ids = {} THEN <<>>
    ELSE LET i == CHOOSE x \in ids : \A y \in ids :
                     \/ server[x].order < server[y].order
                     \/ server[x].order = server[y].order /\ x <= y IN
         <<i>> \o ServerLane(ids \ {i}, groupId, status)

\* the server handles a POST /boards/:id/order/compact: the lane is renumbered to
\* integer steps, and the renumbered items are broadcast
ServerCompact(r) ==
    /\ reqs[r].stage = "sent"
    /\ reqs[r].kind = "compact"
    /\ LET g == reqs[r].patch.groupId
           st == reqs[r].patch.status
           lane == ServerLane({ i \in Ids : /\ server[i] # NoItem
                                            /\ server[i].groupId = g
                                            /\ server[i].status = st
                                            /\ ~server[i].deleted }, g, st)
           pos(i) == CHOOSE k \in DOMAIN lane : lane[k] = i
           new == [i \in Ids |-> IF \E k \in DOMAIN lane : lane[k] = i
                                 THEN [server[i] EXCEPT !.order = pos(i) * OrderUnit]
                                 ELSE server[i]] IN
       /\ server' = new
       /\ events' = IF sock = "open"
                    THEN events \o [k \in DOMAIN lane |->
                                      [type |-> "item.updated", item |-> new[lane[k]]]]
                    ELSE events
    /\ reqs' = [reqs EXCEPT ![r].stage = "answered", ![r].ok = TRUE]
    /\ UNCHANGED <<items, showDeleted, connected, sock, remoteWrites, clock, timers,
                   reorderCounter, opened>>

\* a continuation that takes the drop back out of the lane's counter on a rejection
CompactDoneCountsBack(r) ==
    /\ reqs[r].kind = "compact"
    /\ reqs[r].stage = "answered"
    /\ reqs' = [reqs EXCEPT ![r] = Settle(reqs[r])]
    /\ reorderCounter' =
         (IF reqs[r].ok THEN reorderCounter
          ELSE [reorderCounter EXCEPT ![<<reqs[r].patch.groupId, reqs[r].patch.status>>]
                                         = @ - 1])
    /\ UNCHANGED <<items, showDeleted, connected, sock, events, server, remoteWrites, clock,
                   timers, opened>>

\* maybeCompact after its await: nothing, and catch {} on a rejection
CompactDone(r) ==
    /\ reqs[r].kind = "compact"
    /\ reqs[r].stage = "answered"
    /\ reqs' = [reqs EXCEPT ![r] = Settle(reqs[r])]
    /\ UNCHANGED <<items, showDeleted, connected, sock, events, server, remoteWrites, clock,
                   timers, reorderCounter, opened>>

----------------------------------------------------------------------------
(* Timers.  Where time passes, a timer that is due fires before the clock   *)
(* moves on.                                                                *)

\* time passes
Tick ==
    /\ clock < MaxClock
    /\ pollAt # clock
    /\ pingAt # clock
    /\ clock' = clock + 1
    /\ UNCHANGED <<items, showDeleted, connected, sock, events, reqs, server, remoteWrites,
                   timers, reorderCounter, opened>>

\* the poll effect's interval fires: refetch()
PollTimer ==
    /\ CanIssue
    /\ pollAt = clock
    /\ reqs' = Append(reqs, [RefetchReq(showDeleted) EXCEPT !.board = pollBoard])
    /\ pollAt' = clock + PollInterval
    /\ UNCHANGED <<items, showDeleted, connected, sock, events, server, remoteWrites, clock,
                   pingAt, ping, link, reorderCounter, opened>>

\* a send that goes out whatever the socket's state
SendPingAlways == "sent"

\* ws.send("ping") by the socket's state: it throws while CONNECTING (caught), is
\* discarded once CLOSED, and goes out while OPEN (into the void on a dead link); the
\* socket is the one the interval's closure holds, and a socket left behind by a
\* board switch is CLOSING or CLOSED
SendPing ==
    IF pingBoard # board THEN "dropped"
    ELSE IF sock = "connecting" THEN "threw"
    ELSE IF sock = "closed" THEN "dropped"
    ELSE IF link = "dead" THEN "lost"
    ELSE "sent"

\* the heartbeat interval set by useWebSocket fires
Heartbeat ==
    /\ pingAt = clock
    /\ ping' = SendPing
    /\ pingAt' = clock + HeartbeatInterval
    /\ UNCHANGED <<items, showDeleted, connected, sock, events, reqs, server, remoteWrites,
                   clock, pollAt, link, reorderCounter, opened>>

\* a board switch that leaves the heartbeat interval of the board it leaves running
SwitchBoardKeepsHeartbeat ==
    /\ board = BoardId
    /\ board' = OtherBoardId
    /\ oldSock' = (IF sock = "closed" THEN "closed" ELSE "closing")
    /\ sock' = "connecting"
    /\ link' = "up"
    /\ events' = <<>>
    /\ pollAt' = (IF connected THEN NoTime ELSE clock + PollInterval)
    /\ pollBoard' = OtherBoardId
    /\ reqs' = Append(reqs, [RefetchReq(showDeleted) EXCEPT !.board = OtherBoardId,
                                                             !.auto = TRUE])
    /\ UNCHANGED <<items, showDeleted, connected, server, remoteWrites, clock, ping,
                   pingAt, pingBoard, reorderCounter>>

\* Sidebar onSelect={setCurrentBoardId}: BoardView is rendered with the other board.
\* The effects that depend on board?.id are cleaned up and run again: useWebSocket
\* clears its heartbeat interval, calls ws.close() on the socket (no frame is
\* delivered on it from then on) and opens a socket for the new board with a
\* heartbeat interval of its own; the poll interval is cleared and, while connected
\* is false, set again with the new board's refetch; the refetch effect asks for the
\* new board's items.  The states items, showDeleted and connected are kept.
SwitchBoard ==
    /\ board = BoardId
    /\ board' = OtherBoardId
    /\ oldSock' = (IF sock = "closed" THEN "closed" ELSE "closing")
    /\ sock' = "connecting"
    /\ link' = "up"
    /\ events' = <<>>
    /\ pingAt' = clock + HeartbeatInterval
    /\ pingBoard' = OtherBoardId
    /\ pollAt' = (IF connected THEN NoTime ELSE clock + PollInterval)
    /\ pollBoard' = OtherBoardId
    /\ reqs' = Append(reqs, [RefetchReq(showDeleted) EXCEPT !.board = OtherBoardId,
                                                             !.auto = TRUE])
    /\ UNCHANGED <<items, showDeleted, connected, server, remoteWrites, clock, ping,
                   reorderCounter>>

\* the close of the socket left behind completes: its onclose (and, when it never
\* opened, its onerror) is still attached and calls setConnected(false); when
\* connected turns false the poll effect runs again and sets its interval
OldSockClose ==
    /\ oldSock = "closing"
    /\ oldSock' = "closed"
    /\ connected' = FALSE
    /\ pollAt' = (IF connected THEN clock + PollInterval ELSE pollAt)
    /\ pollBoard' = (IF connected THEN board ELSE pollBoard)
    /\ UNCHANGED <<items, showDeleted, sock, events, reqs, server, remoteWrites, clock,
                   pingAt, ping, link, reorderCounter, board, pingBoard>>

\* the data rows a picked file can hold
ImportRows == 0..MaxRows

\* handleFilePicked, reader.onload of a file that holds a header line:
\* axios.post(`${API}/import/items.csv?boardId=${board.id}`, form, { headers: h });
\* the continuations close over board and showDeleted
Import(rows) ==
    /\ CanIssue
    /\ reqs' = Append(reqs, [Req("import", NoItem, [rows |-> rows])
                               EXCEPT !.incl = showDeleted])
    /\ UNCHANGED <<items, showDeleted, connected, sock, events, server, remoteWrites,
                   clock, timers, reorderCounter, opened>>

\* the server handles POST /import/items.csv: it creates an item per row it accepts
\* (as many as identities are left) and answers { createdCount, errorRows }; whether
\* it also pushes item.created is not said anywhere, so both happen
ServerImport(r, push) ==
    /\ reqs[r].stage = "sent"
    /\ reqs[r].kind = "import"
    /\ reqs' = [reqs EXCEPT ![r].stage = "answered", ![r].ok = TRUE]
    /\ IF reqs[r].patch.rows > 0 /\ FreeIds # {}
       THEN LET id == CHOOSE i \in FreeIds : \A j \in FreeIds : i <= j
                new == [NewItem(id, "g1", "Todo", id * OrderUnit, "b")
                          EXCEPT !.boardId = reqs[r].board] IN
            /\ server' = [server EXCEPT ![id] = new]
            /\ events' = (IF push THEN Broadcast("item.created", new) ELSE events)
       ELSE UNCHANGED <<server, events>>
    /\ UNCHANGED <<items, showDeleted, connected, sock, remoteWrites, clock, timers,
                   reorderCounter, opened>>

\* an import whose refetch follows a success only
ImportDoneOnSuccess(r) ==
    /\ reqs[r].stage = "answered"
    /\ reqs[r].kind = "import"
    /\ reqs' = [reqs EXCEPT ![r].stage = IF reqs[r].ok THEN "waiting" ELSE "done"]
    /\ UNCHANGED <<items, showDeleted, connected, sock, events, server, remoteWrites,
                   clock, timers, reorderCounter, opened>>

\* .then(res => { toast.success(...); errors.csv }).finally(() => { setTimeout(...,
\* 400) }): the result goes into a toast and a download, and fulfilled or rejected
\* the timeout is set
ImportDone(r) ==
    /\ reqs[r].stage = "answered"
    /\ reqs[r].kind = "import"
    /\ reqs' = [reqs EXCEPT ![r].stage = "waiting"]
    /\ UNCHANGED <<items, showDeleted, connected, sock, events, server, remoteWrites,
                   clock, timers, reorderCounter, opened>>

\* the timeout fires: axios.get(`${API}/boards/${board.id}/items`, { headers, params })
\* with the board and the showDeleted of the render the file was picked in
ImportRefetch(r) ==
    /\ reqs[r].stage = "waiting"
    /\ reqs' = Append([reqs EXCEPT ![r].stage = "done"],
                      [RefetchReq(reqs[r].incl) EXCEPT !.board = reqs[r].board,
                                                       !.auto = TRUE, !.of = r])
    /\ UNCHANGED <<items, showDeleted, connected, sock, events, server, remoteWrites,
                   clock, timers, reorderCounter, opened>>

\* the peer or the network goes away without a close reaching this client
LinkDies ==
    /\ sock = "open"
    /\ link = "up"
    /\ link' = "dead"
    /\ events' = <<>>
    /\ UNCHANGED <<items, showDeleted, connected, sock, reqs, server, remoteWrites, clock,
                   pollAt, pingAt, ping, reorderCounter, opened>>

----------------------------------------------------------------------------
(* The board has been opened and its first load has completed: the cache    *)
(* holds the server's items and the socket is being opened.                 *)

Init ==
    /\ server = [i \in Ids |-> IF i \in InitIds
                               THEN NewItem(i, "g1", "Todo", i * OrderUnit, "a")
                               ELSE NoItem]
    /\ showDeleted \in BOOLEAN
    /\ items = ServerList(showDeleted)
    /\ connected = FALSE
    /\ sock = "connecting"
    /\ events = <<>>
    /\ reqs = <<>>
    /\ remoteWrites = 0
    /\ clock = 0
    /\ pollAt = PollInterval
    /\ pingAt = HeartbeatInterval
    /\ ping = "none"
    /\ link = "up"
    /\ reorderCounter = [l \in Lanes |-> 0]
    /\ board = BoardId
    /\ oldSock = "none"
    /\ pollBoard = BoardId
    /\ pingBoard = BoardId

Next ==
    \/ \E it \in Rendered : \E patch \in CommitPatches(it) : Commit(it, patch)
    \/ \E it \in Rendered : SoftDelete(it)
    \/ \E d \in Rids : UndoClick(d)
    \/ \E d \in Rids : ToastExpire(d)
    \/ \E g \in Groups, s \in STATUSES : CreateItem(g, s, "b")
    \/ ToggleShowDeleted
    \/ Poll
    \/ \E r \in Rids : ServerPatch(r)
    \/ \E r \in Rids : ServerCreate(r)
    \/ \E r \in Rids : ServerGet(r)
    \/ \E r \in Rids : RequestFails(r)
    \/ \E id \in Ids, patch \in RemotePatches : RemoteWrite(id, patch)
    \/ \E r \in Rids : CommitDone(r)
    \/ \E r \in Rids : DeleteDone(r)
    \/ \E r \in Rids : UndoDone(r)
    \/ \E r \in Rids : CreateDone(r)
    \/ \E r \in Rids : RefetchDone(r)
    \/ WsMessage
    \/ WsOpen
    \/ WsClose

Spec == Init /\ [][Next]_vars

\* the edit paths: card edits, table-row edits and moves, with the server's answers
NextEdits ==
    \/ \E it \in Rendered : \E patch \in CommitPatches(it) : Commit(it, patch)
    \/ \E it \in Rendered : \E patch \in CommitPatches(it) : TableCommit(it, patch)
    \/ \E it \in Rendered : \E g \in Groups, st \in STATUSES, o \in MoveOrders :
          MoveItem(it, g, st, o)
    \/ \E r \in Rids : ServerPatch(r)
    \/ \E r \in Rids : RequestFails(r)
    \/ \E r \in Rids : CommitDone(r)
    \/ \E r \in Rids : TableDone(r)
    \/ \E r \in Rids : MoveDone(r)

SpecEdits == Init /\ [][NextEdits]_vars

\* the event handler alone: any cache of up to MaxLen entries and any frames received
\* on the open socket
SeqsUpTo(S, n) == UNION { [1..k -> S] : k \in 0..n }

\* snapshots of the open board's items
BoardItems ==
    { NewItem(1, "g1", "Todo", OrderUnit, "a"), NewItem(1, "g1", "Doing", OrderUnit, "b") }
    \cup { [NewItem(1, "g1", "Todo", OrderUnit, "b") EXCEPT !.deleted = TRUE, !.deletedAt = 0] }
    \cup { NewItem(2, "g1", "Todo", 2 * OrderUnit, "a") }

\* a snapshot of an item of another board
ForeignItems == { [NewItem(1, "g1", "Todo", OrderUnit, "b") EXCEPT !.boardId = OtherBoardId] }

EventTypes == {"item.created", "item.updated", "item.deleted", "item.restored"}

\* frames: events with an item of this board, of another board or with no item, and
\* text that is not JSON
Frames ==
    { [type |-> t, item |-> it] : t \in EventTypes, it \in BoardItems \cup ForeignItems }
    \cup { [type |-> "item.updated", item |-> NoItem], [type |-> "garbage", item |-> NoItem] }

InitReduce ==
    /\ server = [i \in Ids |-> NoItem]
    /\ showDeleted \in BOOLEAN
    /\ items \in SeqsUpTo(BoardItems, MaxLen)
    /\ events \in SeqsUpTo(Frames, MaxFrames)
    /\ connected = TRUE
    /\ sock = "open"
    /\ reqs = <<>>
    /\ remoteWrites = 0
    /\ clock = 0
    /\ pollAt = NoTime
    /\ pingAt = HeartbeatInterval
    /\ ping = "none"
    /\ link = "up"
    /\ reorderCounter = [l \in Lanes |-> 0]
    /\ board = BoardId
    /\ oldSock = "none"
    /\ pollBoard = BoardId
    /\ pingBoard = BoardId

NextReduce == WsMessage

SpecReduce == InitReduce /\ [][NextReduce]_vars

\* the connection and the timers, with time passing
NextTimers ==
    \/ Tick
    \/ PollTimer
    \/ Heartbeat
    \/ WsOpen
    \/ WsClose
    \/ LinkDies
    \/ ToggleShowDeleted

SpecTimers == Init /\ [][NextTimers]_vars

\* board A holds items 1 and 2 and is open, board B holds item 3
InitSwitch ==
    /\ server = [i \in Ids |-> IF i \in InitIds
                               THEN NewItem(i, "g1", "Todo", i * OrderUnit, "a")
                               ELSE [NewItem(i, "g1", "Todo", OrderUnit, "a")
                                       EXCEPT !.boardId = OtherBoardId]]
    /\ showDeleted = FALSE
    /\ items = BoardList(BoardId, showDeleted)
    /\ connected = FALSE
    /\ sock = "connecting"
    /\ events = <<>>
    /\ reqs = <<>>
    /\ remoteWrites = 0
    /\ clock = 0
    /\ pollAt = PollInterval
    /\ pingAt = HeartbeatInterval
    /\ ping = "none"
    /\ link = "up"
    /\ reorderCounter = [l \in Lanes |-> 0]
    /\ board = BoardId
    /\ oldSock = "none"
    /\ pollBoard = BoardId
    /\ pingBoard = BoardId

\* a board is left for another while its socket and its timers run, with time
\* passing and other participants renaming items
NextSwitch ==
    \/ Tick
    \/ PollTimer
    \/ Heartbeat
    \/ WsOpen
    \/ WsClose
    \/ SwitchBoard
    \/ OldSockClose
    \/ \E id \in Ids : RemoteWrite(id, [name |-> "b"])
    \/ WsMessage

SpecSwitch == InitSwitch /\ [][NextSwitch]_vars

\* a board is left for another while its requests are under way
NextLate ==
    \/ Poll
    \/ WsOpen
    \/ WsClose
    \/ SwitchBoard
    \/ OldSockClose
    \/ \E it \in Rendered : \E patch \in CommitPatches(it) : Commit(it, patch)
    \/ \E id \in Ids : \E patch \in RemotePatches : RemoteWrite(id, patch)
    \/ \E r \in Rids : \/ ServerPatch(r)
                       \/ ServerGet(r)
                       \/ CommitDone(r)
                       \/ RefetchDone(r)
    \/ WsMessage

SpecLate == InitSwitch /\ [][NextLate]_vars

\* the places requests take in reqs when every request of the user is an import
ReqSlots == 1..(2 * MaxReq)

\* files are imported while the user toggles Show deleted and events are pushed
NextImport ==
    \/ \E rows \in ImportRows : Import(rows)
    \/ ToggleShowDeleted
    \/ WsOpen
    \/ WsMessage
    \/ \E r \in Rids : \/ \E push \in BOOLEAN : ServerImport(r, push)
                       \/ RequestFails(r)
                       \/ ServerGet(r)
                       \/ ImportDone(r)
                       \/ ImportRefetch(r)
                       \/ RefetchDone(r)

\* promise continuations and timeouts run once they are due
SpecImport ==
    /\ Init
    /\ [][NextImport]_vars
    /\ \A r \in ReqSlots : /\ WF_vars(r \in Rids /\ ImportDone(r))
                            /\ WF_vars(r \in Rids /\ ImportRefetch(r))

\* the boards the drops are checked on: items 1 and 2 in lane Todo with these orders
\* (a healthy lane, one that starts at 0, one with equal orders, one whose orders are
\* adjacent values), item 3 alone in lane Doing
LaneOrders == { <<OrderUnit, 2 * OrderUnit>>, <<0, OrderUnit>>,
                <<OrderUnit, OrderUnit>>, <<OrderUnit, OrderUnit + 1>> }

InitDrops ==
    /\ \E o \in LaneOrders :
         server = [i \in Ids |-> IF i \in InitIds
                                 THEN NewItem(i, "g1", "Todo", o[i], "a")
                                 ELSE NewItem(i, "g1", "Doing", OrderUnit, "a")]
    /\ showDeleted = FALSE
    /\ items = ServerList(showDeleted)
    /\ connected = FALSE
    /\ sock = "connecting"
    /\ events = <<>>
    /\ reqs = <<>>
    /\ remoteWrites = 0
    /\ clock = 0
    /\ pollAt = PollInterval
    /\ pingAt = HeartbeatInterval
    /\ ping = "none"
    /\ link = "up"
    /\ reorderCounter = [l \in Lanes |-> 0]
    /\ board = BoardId
    /\ oldSock = "none"
    /\ pollBoard = BoardId
    /\ pingBoard = BoardId

\* drops of any card on any lane at any position, with the server's answers
NextDrops ==
    \/ \E id \in Ids, l \in Lanes, idx \in 0..Cardinality(Ids) :
          CanIssue /\ Drop(id, l[1], l[2], idx)
    \/ \E r \in Rids : ServerPatch(r)
    \/ \E r \in Rids : ServerCompact(r)
    \/ \E r \in Rids : RequestFails(r)
    \/ \E r \in Rids : MoveDone(r)
    \/ \E r \in Rids : CompactDone(r)

SpecDrops == InitDrops /\ [][NextDrops]_vars

\* no request is waiting for its answer or its continuation
AllSettled == \A r \in Rids : reqs[r].stage = "done"

\* item 3 dropped again and again on lane Todo, in front of its first card or behind
\* it, each drop after the requests of the one before have been answered and settled
NextInserts ==
    \/ \E idx \in {0, 1} :
          /\ AllSettled
          /\ reorderCounter[<<"g1", "Todo">>] < MaxInserts
          /\ Drop(3, "g1", "Todo", idx)
    \/ \E r \in Rids : ServerPatch(r)
    \/ \E r \in Rids : ServerCompact(r)
    \/ \E r \in Rids : MoveDone(r)
    \/ \E r \in Rids : CompactDone(r)

SpecInserts == InitDrops /\ [][NextInserts]_vars

\* edits, moves and deletes with refetches and pushed events arriving while they are
\* in flight
NextStale ==
    \/ \E it \in Rendered : \E patch \in CommitPatches(it) : Commit(it, patch)
    \/ \E it \in Rendered : \E g \in Groups, st \in STATUSES, o \in MoveOrders :
          MoveItem(it, g, st, o)
    \/ \E it \in Rendered : SoftDelete(it)
    \/ Poll
    \/ \E id \in Ids, patch \in RemotePatches : RemoteWrite(id, patch)
    \/ \E r \in Rids : ServerPatch(r)
    \/ \E r \in Rids : ServerGet(r)
    \/ \E r \in Rids : CommitDone(r)
    \/ \E r \in Rids : MoveDone(r)
    \/ \E r \in Rids : DeleteDone(r)
    \/ \E r \in Rids : RefetchDone(r)
    \/ WsOpen
    \/ WsMessage

SpecStale == Init /\ [][NextStale]_vars


----------------------------------------------------------------------------
(* Properties *)

\* request r is a field edit of item id
IsEdit(r, id) == reqs[r].kind = "commit" /\ reqs[r].item.id = id

\* this step runs the continuation of request r
Settles(r) == reqs[r].stage = "answered" /\ reqs'[r].stage = "done"

\* the cache entries of item id
Entries(prev, id) == SelectSeq(prev, LAMBDA x : x.id = id)

\* C1: for two edits of the same item issued in the order r1, r2, a response of r1
\* that arrives after the response of r2 was applied is discarded: the step that
\* handles it leaves the cache as it is.
C1_StaleResponseDiscarded ==
    [][\A r1, r2 \in Rids :
         (/\ r1 < r2
          /\ IsEdit(r1, reqs[r1].item.id) /\ IsEdit(r2, reqs[r1].item.id)
          /\ reqs[r2].stage = "done" /\ reqs[r2].ok
          /\ reqs[r1].ok /\ Settles(r1))
         => items' = items]_vars

\* C2: the cache never holds two entries with the same identity.
C2_OneEntryPerIdentity ==
    \A i, j \in DOMAIN items : i # j => items[i].id # items[j].id

\* C3: when the request of an optimistic edit fails, handling the failure puts the
\* item's pre-mutation snapshot back into the cache.
C3_RolledBackOnFailure ==
    [][\A r \in Rids :
         (reqs[r].kind = "commit" /\ ~reqs[r].ok /\ Settles(r))
         => \A k \in DOMAIN items' :
               items'[k].id = reqs[r].item.id => items'[k] = reqs[r].item]_vars


\* the cache holds exactly the items the server would list for the current view
CacheMatchesServer ==
    { items[k] : k \in DOMAIN items } =
    { ServerList(showDeleted)[k] : k \in DOMAIN ServerList(showDeleted) }

\* nothing is under way and the poller is off: every request has been answered and
\* handled, every message sent on the open socket has been handled
Quiet ==
    /\ connected /\ sock = "open"
    /\ events = <<>>
    /\ \A r \in Rids : reqs[r].stage = "done"

\* C4: once every response and every push event has been delivered and the user is
\* idle, the cache equals the server's item set for the current view.  While the
\* socket stays open no poll is due, so a quiet state that differs stays different.
\* (Stated for the runs in which this client is the only writer and every request
\* got a successful response.)
C4_Converged ==
    (Quiet /\ remoteWrites = 0 /\ \A r \in Rids : reqs[r].ok) => CacheMatchesServer

\* item id has a live entry in cache prev
LiveIn(prev, id) == \E k \in DOMAIN prev : prev[k].id = id /\ ~prev[k].deleted

\* C5: once the failure of a delete request has been handled, that is once the undo
\* it started has settled either way, the item is not left tombstoned or removed in
\* the cache while the server holds it live.
C5_NotLeftTombstoned ==
    [][\A r \in Rids :
         (reqs[r].kind = "undo" /\ reqs[r].auto /\ Settles(r))
         => (~server'[reqs[r].item.id].deleted => LiveIn(items', reqs[r].item.id))]_vars

\* C6: with tombstones hidden, the step that handles a failed delete request puts the
\* item back into the cache with its pre-delete field values.
C6_BackInSameStep ==
    [][\A r \in Rids :
         (reqs[r].kind = "delete" /\ ~reqs[r].incl /\ ~reqs[r].ok /\ Settles(r))
         => \E k \in DOMAIN items' : items'[k] = reqs[r].item]_vars

\* the undo requests of item id whose promise has not settled in the client
UndosInFlight(id) ==
    { r \in Rids : reqs[r].kind = "undo" /\ reqs[r].item.id = id /\ reqs[r].stage # "done" }

\* C7: at most one undo is in flight per item.
C7_OneUndoInFlight == \A id \in Ids : Cardinality(UndosInFlight(id)) <= 1


\* this step runs softDelete up to its await: the request it appends is the delete
IssuesDelete == Len(reqs') = Len(reqs) + 1 /\ reqs'[Len(reqs')].kind = "delete"

\* undo request u was started from the toast of delete d
UserUndoOf(u, d) ==
    reqs[u].kind = "undo" /\ reqs[u].of = d /\ ~reqs[u].auto /\ reqs[d].kind = "delete"

\* C9: when undo was triggered while the delete was in flight and its response has
\* been applied, the later completion of the delete request leaves the cache as it
\* is, and with nothing else under way the item is live in the cache and on the
\* server.  (Stated for the runs in which this client is the only writer and the
\* delete and the undo are its only requests.)
C9_UndoWinsOverDelete ==
    [][\A d, u \in Rids :
         (/\ UserUndoOf(u, d)
          /\ reqs[u].stage = "done" /\ reqs[u].ok
          /\ Settles(d) /\ reqs[d].ok
          /\ Len(reqs) = 2 /\ remoteWrites = 0 /\ events = <<>>)
         => /\ items' = items
            /\ LiveIn(items', reqs[u].item.id)
            /\ ~server'[reqs[u].item.id].deleted]_vars


\* equal on every field other than order
SameButOrder(a, b) == [a EXCEPT !.order = 0] = [b EXCEPT !.order = 0]

\* this step applies the successful response of an undo the user started
AppliesUserUndo(u) == reqs[u].kind = "undo" /\ ~reqs[u].auto /\ reqs[u].ok /\ Settles(u)

C10_OptimisticDelete ==
    [][IssuesDelete
       => LET d == reqs'[Len(reqs')]
              id == d.item.id IN
          /\ d.stage = "sent"
          /\ IF showDeleted
             THEN /\ Len(items') = Len(items)
                  /\ Entries(items', id) # <<>>
                  /\ \A k \in DOMAIN items :
                        items[k].id = id
                        => items'[k] = [items[k] EXCEPT !.deleted = TRUE,
                                                        !.deletedAt = items'[k].deletedAt]
                           /\ items'[k].deletedAt # NoTime
             ELSE Entries(items', id) = <<>>
          /\ FilterItems(items', id) = FilterItems(items, id)]_vars

\* a delete request is under way and, with tombstones hidden, its item is gone from
\* the cache while another item is still there
C10_Witness ==
    \E d \in Rids :
        /\ reqs[d].kind = "delete" /\ reqs[d].stage = "sent" /\ ~reqs[d].incl
        /\ ~showDeleted
        /\ Entries(items, reqs[d].item.id) = <<>>
        /\ items # <<>>


----------------------------------------------------------------------------
(* The connection and the timers *)

\* this step issues a refetch
IssuesRefetch == Len(reqs') = Len(reqs) + 1 /\ reqs'[Len(reqs')].kind = "refetch"

\* this step issues a refetch that the Show deleted switch did not cause
PollRefetch == IssuesRefetch /\ showDeleted' = showDeleted

\* C11: the poll timer is armed exactly while the connection is not Connected; it is
\* never further than one polling interval away; a poll-triggered refetch is issued
\* only while not Connected; and while not Connected the timer is set anew only in a
\* step that issues a refetch with the current includeDeleted setting, so refetches
\* follow each other within one interval until Connected is reached.
C11_PollerFollowsConnection ==
    /\ [](pollAt # NoTime <=> ~connected)
    /\ [](~connected => pollAt \in clock .. clock + PollInterval)
    /\ [][PollRefetch => ~connected /\ pollAt = clock]_vars
    /\ [][(~connected /\ ~connected' /\ pollAt' # pollAt)
          => /\ IssuesRefetch
             /\ reqs'[Len(reqs')].incl = showDeleted'
             /\ pollAt' = clock + PollInterval]_vars

\* the connection was Connected, was lost, and the poller has since issued its second
\* refetch, one interval after the first
C11_Witness ==
    /\ ~connected /\ sock = "closed"
    /\ Len(reqs) = 2 /\ \A r \in Rids : reqs[r].kind = "refetch" /\ reqs[r].incl = showDeleted
    /\ pollAt = clock + PollInterval
    /\ clock > 2 * PollInterval

\* this step is a firing of the heartbeat interval
HeartbeatStep == pingAt' # pingAt

ConnState ==
    IF connected THEN "Connected"
    ELSE IF sock = "connecting" THEN "Connecting" ELSE "Disconnected"

\* the edges of the connection state machine, and a connection attempt that fails
ConnEdges ==
    { <<"Disconnected", "Connecting">>, <<"Connecting", "Connected">>,
      <<"Connected", "Disconnected">>, <<"Connecting", "Disconnected">> }

\* C13: the connection state changes only along the edges of its state machine, and a
\* heartbeat timeout leaves Connected: when the heartbeat fires and the probe sent one
\* interval earlier went into a dead connection without any effect, the state becomes
\* Disconnected.
C13_HeartbeatTimeoutDisconnects ==
    /\ [][ConnState' # ConnState => <<ConnState, ConnState'>> \in ConnEdges]_vars
    /\ [][(HeartbeatStep /\ ping = "lost" /\ link = "dead")
          => ConnState' = "Disconnected"]_vars

----------------------------------------------------------------------------
(* The event handler *)

\* this step takes the frame at the head of the open socket's queue
TakesFrame == sock = "open" /\ events # <<>> /\ events' = Tail(events)

\* this step handles the frame at the head of the socket's queue
HandlesFrame == TakesFrame /\ sock' = "open" /\ link' = link

\* this step handles an event of the given type about an item of the open board
HandlesEvent(type) ==
    /\ HandlesFrame
    /\ Head(events).type = type
    /\ Head(events).item # NoItem
    /\ Head(events).item.boardId = BoardId

\* C14: handling an event whose item belongs to another board leaves the cache as it
\* was, whatever the event's type.
C14_ForeignEventIgnored ==
    [][(HandlesFrame /\ Head(events).item # NoItem /\ Head(events).item.boardId # BoardId)
       => items' = items]_vars

\* an event about another board's item is about to be handled while the cache holds
\* an entry with the same identity
C14_Witness ==
    /\ sock = "open" /\ events # <<>>
    /\ Head(events).item # NoItem /\ Head(events).item.boardId = OtherBoardId
    /\ Exists(items, Head(events).item.id)

\* C15: after an item.updated event about an item of the open board has been handled,
\* the cache holds the event's item, whether or not the item was cached before.
C15_UpdatedUpserts ==
    [][HandlesEvent("item.updated")
       => \E k \in DOMAIN items' : items'[k] = Head(events).item]_vars

\* C16: after an item.deleted event about an item of the open board has been handled,
\* the item has no entry in the cache when tombstones are hidden, and the cache holds
\* the event's item when tombstones are visible, also when it was not cached before.
C16_DeletedDropsOrUpserts ==
    [][HandlesEvent("item.deleted")
       => IF showDeleted
          THEN \E k \in DOMAIN items' : items'[k] = Head(events).item
          ELSE Entries(items', Head(events).item.id) = <<>>]_vars

\* C17: after an item.restored event has been handled the cache holds exactly one
\* entry for the item, the event's item.
C17_RestoredExactlyOnce ==
    [][HandlesEvent("item.restored")
       => Entries(items', Head(events).item.id) = <<Head(events).item>>]_vars

\* C18: handling an item.updated event a second time changes nothing: the cache that
\* results from handling it once is a fixed point of handling it, for every cache and
\* every event (of this board, of another board, or without an item).
C18_UpdatedIdempotent ==
    [][(HandlesFrame /\ Head(events).type = "item.updated")
       => Reduce(items', Head(events), showDeleted) = items']_vars

\* the same item.updated event is queued twice in a row, about an item the cache
\* holds with other field values
C18_Witness ==
    /\ sock = "open" /\ Len(events) = 2 /\ events[1] = events[2]
    /\ events[1].type = "item.updated" /\ events[1].item # NoItem
    /\ \E k \in DOMAIN items :
          items[k].id = events[1].item.id /\ items[k] # events[1].item

\* the frame does not parse, or it parses to a message without an item
Malformed(frame) == ~Parses(frame) \/ frame.item = NoItem

\* C19: handling a malformed frame drops that frame only: the cache, the connection
\* state and the socket stay as they were and the frames behind it stay queued; and
\* every well-formed frame is reduced when its turn comes, whatever was handled before.
C19_MalformedDropped ==
    /\ [][(TakesFrame /\ Malformed(Head(events)))
          => /\ items' = items
             /\ connected /\ connected'
             /\ UNCHANGED <<showDeleted, sock, reqs, timers>>]_vars
    /\ [][(HandlesFrame /\ ~Malformed(Head(events)))
          => items' = Reduce(items, Head(events), showDeleted)]_vars

\* text that is not JSON is at the head of the queue, and behind it an item.updated
\* event that will change a cached item
C19_Witness ==
    /\ sock = "open" /\ connected /\ Len(events) = 2
    /\ ~Parses(events[1])
    /\ events[2].type = "item.updated" /\ events[2].item # NoItem
    /\ Reduce(items, events[2], showDeleted) # items

----------------------------------------------------------------------------
(* The edit paths *)

\* this step issues the request of an edit (a card edit, a table-row edit or a move)
IssuesEdit ==
    /\ Len(reqs') = Len(reqs) + 1
    /\ reqs'[Len(reqs')].kind \in {"commit", "table", "move"}

\* x with the patch merged in: the patch's fields take its values, the others stay
Merged(x, patch) ==
    [f \in DOMAIN x |-> IF f \in DOMAIN patch THEN patch[f] ELSE x[f]]

\* C20: the step that issues an edit's request, on every edit path, has already merged
\* the patch into the cached item: each field of the patch takes the patch's value,
\* the item's other fields and all other items keep theirs.
C20_PatchMergedAtOnce ==
    [][IssuesEdit
       => LET q == reqs'[Len(reqs')] IN
          /\ q.stage = "sent"
          /\ items' = [k \in DOMAIN items |->
                         IF items[k].id = q.item.id THEN Merged(items[k], q.patch)
                         ELSE items[k]]]_vars

----------------------------------------------------------------------------
(* Responses and frames of the edit paths *)

\* the kinds of request an edit issues (a card edit, a table-row edit, a move)
EditKinds == {"commit", "table", "move"}

\* C21: when the continuation of a successful edit runs (in particular when no newer
\* edit of the item has landed since), every cached entry of the item equals the
\* server's response on every field, `order` included.
C21_CacheEqualsResponse ==
    [][\A r \in Rids :
         (Settles(r) /\ reqs[r].kind \in EditKinds /\ reqs[r].ok)
         => \A k \in DOMAIN items' :
              items'[k].id = reqs[r].item.id => items'[k] = reqs[r].resp]_vars

\* the only request issued is a successful move whose continuation has run, and the
\* cached item is the server's snapshot with the new lane and order
C21_Witness ==
    /\ Len(reqs) = 1
    /\ reqs[1].kind = "move" /\ reqs[1].stage = "done" /\ reqs[1].ok
    /\ \E k \in DOMAIN items :
         /\ items[k].id = reqs[1].item.id
         /\ items[k] = server[items[k].id]
         /\ items[k].status = "Doing"
         /\ items[k].order = (3 * OrderUnit) \div 2

\* C22: a step of an edit of item A (its optimistic patch, the continuation of its
\* success or of its failure) leaves the cached entries of every other item B as
\* they are, whatever other edits are in flight.
C22_OtherItemsUntouched ==
    [][\A id \in Ids :
         (\/ IssuesEdit /\ reqs'[Len(reqs')].item.id = id
          \/ \E r \in Rids : Settles(r) /\ reqs[r].kind \in EditKinds
                             /\ reqs[r].item.id = id)
         => /\ Len(items') = Len(items)
            /\ \A k \in DOMAIN items : items[k].id # id => items'[k] = items[k]]_vars

\* two edits of different items were in flight together; one has settled with success,
\* the other has been answered, and the second item's entry carries its own patch
C22_Witness ==
    /\ Len(reqs) = 2
    /\ reqs[1].item.id # reqs[2].item.id
    /\ reqs[1].kind \in EditKinds /\ reqs[2].kind \in EditKinds
    /\ reqs[1].stage = "done" /\ reqs[1].ok
    /\ reqs[2].stage = "answered"
    /\ \E k \in DOMAIN items :
         items[k].id = reqs[2].item.id /\ items[k] = Merged(items[k], reqs[2].patch)
                                       /\ items[k] # server[items[k].id]

----------------------------------------------------------------------------
(* Drops and the order allocator *)

\* the requests this step issues
IssuedNow == (Len(reqs) + 1)..Len(reqs')

\* the orders of the cards around position idx of a lane, as optional numbers
Neighbours(lane, idx) ==
    [hasPrev |-> idx >= 1, prev |-> IF idx >= 1 THEN lane[idx].order ELSE 0,
     hasNext |-> idx + 1 <= Len(lane),
     next |-> IF idx + 1 <= Len(lane) THEN lane[idx + 1].order ELSE 0]

\* the allocator of the design: the clock with no neighbour, next - 1 with a next
\* only, prev + 1 with a prev only, the mean with both
Allocate(nb) ==
    CASE ~nb.hasPrev /\ ~nb.hasNext -> NowOrder
      [] ~nb.hasPrev /\ nb.hasNext -> nb.next - OrderUnit
      [] nb.hasPrev /\ ~nb.hasNext -> nb.prev + OrderUnit
      [] nb.hasPrev /\ nb.hasNext -> (nb.prev + nb.next) \div 2

\* C23: the step of a drop computes the new order from a neighbour pair of the
\* destination lane as it is before the step, sends the move request with it, and has
\* patched the cached item in the same step, before any response: the cached item and
\* the request's patch hold the same groupId, status and order.
C23_DropPatchesCacheAndRequestAlike ==
    [][\A n \in IssuedNow :
         reqs'[n].kind = "move"
         => LET q == reqs'[n]
                lane == laneItems(q.patch.groupId, q.patch.status) IN
            /\ q.stage = "sent"
            /\ \E idx \in 0..Len(lane) : q.patch.order = Allocate(Neighbours(lane, idx))
            /\ \E k \in DOMAIN items' : items'[k].id = q.item.id
            /\ \A k \in DOMAIN items' :
                 items'[k].id = q.item.id
                 => /\ items'[k].groupId = q.patch.groupId
                    /\ items'[k].status = q.patch.status
                    /\ items'[k].order = q.patch.order]_vars

\* item 3 has been dropped from lane Doing between the two cards of lane Todo: its
\* move request is not yet answered and the cache already shows it there
C23_Witness ==
    \E r \in Rids :
      /\ reqs[r].kind = "move" /\ reqs[r].stage = "sent"
      /\ reqs[r].item.id = 3 /\ reqs[r].item.status = "Doing"
      /\ reqs[r].patch.status = "Todo"
      /\ reqs[r].patch.order = (3 * OrderUnit) \div 2
      /\ server[3].status = "Doing"
      /\ \E k \in DOMAIN items :
           /\ items[k].id = 3 /\ items[k].status = "Todo"
           /\ items[k].order = reqs[r].patch.order

\* C24: the order a drop at position idx computes is the allocator's value for the
\* neighbour pair at that position: the clock when both are absent, next - 1 with only
\* a next, prev + 1 with only a prev, the mean with both, also when a neighbour's
\* order is 0.
C24_DropOrderIsAllocated ==
    [][\A id \in Ids, l \in Lanes, idx \in 0..Cardinality(Ids) :
         Drop(id, l[1], l[2], idx)
         => LET q == reqs'[Len(reqs) + 1] IN
            /\ q.kind = "move"
            /\ q.patch.order = Allocate(Neighbours(laneItems(l[1], l[2]), idx))]_vars

\* a card has been dropped between a card of order 0 and a card of order 1.0, and a
\* card in front of a card of order 0
C24_Witness ==
    /\ Len(reqs) >= 2
    /\ reqs[1].kind = "move" /\ reqs[1].patch.order = OrderUnit \div 2
    /\ reqs[2].kind = "move" /\ reqs[2].patch.order = 0 - OrderUnit
    /\ \E k \in DOMAIN items : items[k].order = 0

\* C25: a card dropped between two adjacent cards of orders p < n gets an order
\* strictly greater than p and strictly less than n.
C25_OrderStrictlyBetween ==
    [][\A id \in Ids, l \in Lanes, idx \in 1..Cardinality(Ids) :
         LET lane == laneItems(l[1], l[2]) IN
         (/\ Drop(id, l[1], l[2], idx)
          /\ idx < Len(lane)
          /\ lane[idx].order < lane[idx + 1].order)
         => LET o == reqs'[Len(reqs) + 1].patch.order IN
            lane[idx].order < o /\ o < lane[idx + 1].order]_vars

\* C26: the order a drop allocates differs from the order of every other visible card
\* of the destination lane, whatever orders the lane holds (equal ones included).
C26_AllocatedOrderIsFresh ==
    [][\A id \in Ids, l \in Lanes, idx \in 0..Cardinality(Ids) :
         Drop(id, l[1], l[2], idx)
         => LET lane == laneItems(l[1], l[2])
                o == reqs'[Len(reqs) + 1].patch.order IN
            \A k \in DOMAIN lane : lane[k].id # id => lane[k].order # o]_vars

----------------------------------------------------------------------------
(* The lane view *)

\* the caches that hold the same entries as `items` in another sequence
Rearranged ==
    { [k \in DOMAIN items |-> items[f[k]]] : f \in Permutations(DOMAIN items) }

\* C27: the cards of a lane and their sequence are a function of the set of cached
\* items only: a cache holding the same items in another sequence shows every lane
\* the same way, ties on `order` being broken by the items' identities.
C27_LaneViewOfItemSet ==
    \A l \in Lanes : \A c \in Rearranged : LaneOf(c, l[1], l[2]) = laneItems(l[1], l[2])

\* the entries of a list that equal x
Count(s, x) == Cardinality({ k \in DOMAIN s : s[k] = x })

\* the item belongs to the lane and passes the tombstone filter
InLane(x, l) == x.groupId = l[1] /\ x.status = l[2] /\ (showDeleted \/ ~x.deleted)

----------------------------------------------------------------------------
(* The compaction trigger *)

\* the compaction requests this step issues for lane l
CompactionsNow(l) ==
    { n \in IssuedNow : /\ reqs'[n].kind = "compact" /\ reqs'[n].stage = "sent"
                        /\ reqs'[n].patch = [groupId |-> l[1], status |-> l[2]] }

\* the distance of two orders
Dist(a, b) == IF a >= b THEN a - b ELSE b - a

\* C29: every drop on a lane adds one to that lane's counter and leaves the counters
\* of the other lanes; it issues a compaction request for that lane, and one only,
\* exactly when the drop has both neighbours and |next - prev| is below 0.001, or the
\* lane's counter after the increment is a multiple of 10; it issues none for another
\* lane.
C29_CompactionTrigger ==
    [][\A id \in Ids, l \in Lanes, idx \in 0..Cardinality(Ids) :
         Drop(id, l[1], l[2], idx)
         => LET nb == Neighbours(laneItems(l[1], l[2]), idx)
                narrow == /\ nb.hasPrev /\ nb.hasNext
                          /\ Dist(nb.next, nb.prev) * 1000 < OrderUnit IN
            /\ reorderCounter'[l] = reorderCounter[l] + 1
            /\ \A m \in Lanes \ {l} : /\ reorderCounter'[m] = reorderCounter[m]
                                      /\ CompactionsNow(m) = {}
            /\ Cardinality(CompactionsNow(l)) =
                 (IF narrow \/ reorderCounter'[l] % 10 = 0 THEN 1 ELSE 0)]_vars

\* the first drop on lane Todo went between two cards less than 0.001 apart and issued
\* a compaction request with the lane's counter at 1; the lane's 10th drop has just
\* issued one, drops in between have issued none, and lane Doing's counter is still 0
C29_Witness ==
    /\ reorderCounter[<<"g1", "Todo">>] = 10
    /\ reorderCounter[<<"g1", "Doing">>] = 0
    /\ Len(reqs) >= 3
    /\ reqs[2].kind = "compact"
    /\ reqs[Len(reqs)].kind = "compact" /\ reqs[Len(reqs)].stage = "sent"
    /\ Len(SelectSeq(reqs, LAMBDA r : r.kind = "compact")) < 10

\* the cached item of identity id
Cached(id) == Find(items, id)

\* k insertions of the scenario have been made: items 1 and 2 are the cards of orders
\* 1.0 and 2.0 of lane Todo, the lane's counter is k, and item 3 is where the k-th
\* halving put it (in lane Doing before the first)
InScenario(k) ==
    /\ \A id \in Ids : Exists(items, id)
    /\ Cached(1).status = "Todo" /\ Cached(1).order = OrderUnit
    /\ Cached(2).status = "Todo" /\ Cached(2).order = 2 * OrderUnit
    /\ reorderCounter[<<"g1", "Todo">>] = k
    /\ IF k = 0 THEN Cached(3).status = "Doing"
       ELSE /\ Cached(3).status = "Todo"
            /\ Cached(3).order = OrderUnit + OrderUnit \div (2 ^ k)

\* C30: from the lane [1.0, 2.0] with a fresh counter, a card inserted between the two
\* (order 1.5) and then nine more times between 1.0 and where it was inserted last
\* halves its distance to 1.0 each time; insertions 1 to 9 issue no compaction
\* request, the 10th issues exactly one, and at the 10th the gap between the
\* neighbours is still at least 0.001, so it is the counter that triggers it.
C30_TenthInsertionCompacts ==
    [][\A k \in 0..9 :
         (InScenario(k) /\ Drop(3, "g1", "Todo", 1))
         => LET lane == laneItems("g1", "Todo") IN
            /\ InScenario(k + 1)'
            /\ Cardinality(CompactionsNow(<<"g1", "Todo">>)) = (IF k + 1 = 10 THEN 1 ELSE 0)
            /\ Dist(lane[2].order, lane[1].order) * 1000 >= OrderUnit]_vars

\* the ten insertions are made: item 3 is at 1.0 + 2^-10, and the one compaction
\* request of the run is the last request issued
C30_Witness ==
    /\ InScenario(10)
    /\ Len(SelectSeq(reqs, LAMBDA r : r.kind = "compact")) = 1
    /\ reqs[Len(reqs)].kind = "compact"
    /\ Len(SelectSeq(reqs, LAMBDA r : r.kind = "move")) = 10

\* request r is a compaction request for lane l that was rejected
FailedCompaction(r, l) ==
    /\ reqs[r].kind = "compact" /\ ~reqs[r].ok
    /\ reqs[r].stage \in {"answered", "done"}
    /\ reqs[r].patch = [groupId |-> l[1], status |-> l[2]]

\* C31: the rejection of a compaction request and the continuation that follows it
\* change neither the cache nor the lane counters nor any other request (the move of
\* the same drop goes on to its own answer), and leave the request settled with
\* nothing else to do.
C31_FailedCompactionIgnored ==
    [][\A r \in Rids :
         (/\ reqs[r].kind = "compact"
          /\ \/ reqs[r].stage = "sent" /\ reqs'[r].stage = "answered" /\ ~reqs'[r].ok
             \/ Settles(r) /\ ~reqs[r].ok)
         => /\ items' = items
            /\ reorderCounter' = reorderCounter
            /\ server' = server
            /\ Len(reqs') = Len(reqs)
            /\ \A q \in Rids \ {r} : reqs'[q] = reqs[q]]_vars

\* a drop's compaction request was rejected and has settled; the drop's move was
\* answered after that and has settled with success, the cache showing its order
C31_Witness ==
    /\ Len(reqs) >= 2
    /\ reqs[1].kind = "move" /\ reqs[1].stage = "done" /\ reqs[1].ok
    /\ reqs[2].kind = "compact" /\ reqs[2].stage = "done" /\ ~reqs[2].ok
    /\ reorderCounter[<<"g1", "Todo">>] = 1
    /\ \E k \in DOMAIN items : items[k].id = reqs[1].item.id /\ items[k] = server[items[k].id]
                               /\ items[k].status = "Todo"

\* C32: after a compaction request for a lane was rejected, the next drop on that lane
\* issues a compaction request for it again.
C32_RetriedOnNextInsertion ==
    [][\A id \in Ids, l \in Lanes, idx \in 0..Cardinality(Ids) :
         (/\ Drop(id, l[1], l[2], idx)
          /\ \E r \in Rids : FailedCompaction(r, l)
          /\ \A r \in Rids : reqs[r].kind = "compact" => FailedCompaction(r, l))
         => CompactionsNow(l) # {}]_vars

----------------------------------------------------------------------------
(* Responses that arrive late *)

\* C38: when the continuation of a successful refetch runs, the cache becomes exactly
\* the list of the response: cached items the response does not hold are dropped and
\* optimistic patches are replaced by the server's values, whatever requests are
\* still in flight.
C38_RefetchReplacesCache ==
    [][\A r \in Rids :
         (Settles(r) /\ reqs[r].kind = "refetch" /\ reqs[r].ok) => items' = reqs[r].list]_vars

\* a refetch answered before the server saw an edit has been processed while the
\* edit's request is still on its way: the optimistic patch is gone from the cache
C38_Witness ==
    /\ Len(reqs) = 2
    /\ reqs[1].kind \in {"commit", "move"} /\ reqs[1].stage = "sent"
    /\ reqs[2].kind = "refetch" /\ reqs[2].stage = "done" /\ reqs[2].ok
    /\ items = ServerList(showDeleted)
    /\ \E k \in DOMAIN items :
         items[k].id = reqs[1].item.id /\ items[k] # Merged(items[k], reqs[1].patch)

\* C39: the continuation of a successful edit or move never inserts: when the cache
\* holds no entry of the item (it was removed while the request was in flight) the
\* cache is left as it is and the item stays absent.
C39_ResponseNeverInserts ==
    [][\A r \in Rids :
         (/\ Settles(r) /\ reqs[r].kind \in EditKinds /\ reqs[r].ok
          /\ ~Exists(items, reqs[r].item.id))
         => items' = items]_vars

\* with tombstones hidden, an item was deleted while its edit was in flight; the edit's
\* success has been processed and the item is not in the cache
C39_Witness ==
    /\ ~showDeleted
    /\ \E r \in Rids :
         /\ reqs[r].kind \in {"commit", "move"} /\ reqs[r].stage = "done" /\ reqs[r].ok
         /\ ~Exists(items, reqs[r].item.id)
         /\ server[reqs[r].item.id] # NoItem


----------------------------------------------------------------------------
(* Leaving a board for another *)

\* board A was left for board B
Left == board # BoardId

\* this step is a firing of the heartbeat interval after the board was left
HeartbeatAfterSwitch == Left /\ pingAt = clock /\ pingAt' = clock + HeartbeatInterval

\* C33: once board A was left for board B, A's transport and timers are gone: the
\* heartbeat interval that runs belongs to B's socket and a firing of it sends on
\* that socket; the poll interval asks for B's items and every refetch issued asks
\* for B's items; A's socket is closing or closed; no push message of A is waiting
\* for the handler, and a message about an item of A leaves the cache as it is.
C33_SwitchTearsDownTransport ==
    /\ [](Left => pingBoard = board /\ pollBoard = board)
    /\ [][HeartbeatAfterSwitch => ping' = SendPing /\ pingBoard = board]_vars
    /\ [][Left /\ IssuesRefetch => reqs'[Len(reqs')].board = board]_vars
    /\ [](Left => oldSock \in {"closing", "closed"})
    /\ [](Left => \A k \in DOMAIN events : events[k].item.boardId # BoardId)
    /\ [][Left /\ TakesFrame /\ Head(events).item.boardId = BoardId
            => items' = items]_vars

\* board A was left at a time that is no multiple of the heartbeat interval, the
\* heartbeat of B's socket has fired since and its probe went out, a poll has asked
\* for B's items, and A's socket is closed
C33_Witness ==
    /\ Left
    /\ oldSock = "closed"
    /\ pingAt > 2 * HeartbeatInterval
    /\ pingAt % HeartbeatInterval # 0
    /\ ping = "sent"
    /\ \E r \in Rids : reqs[r].board = board /\ ~reqs[r].auto

\* C35: in every state connected is true exactly when the socket of the open board
\* is open, and after a board switch no step turns connected false while the new
\* board's socket is open and stays open.
C35_ConnectedIffSocketOpen ==
    /\ [](connected <=> sock = "open")
    /\ [][Left /\ sock = "open" /\ sock' = "open" /\ connected => connected']_vars

\* the entries of the cache that are snapshots of items of board A
OfBoardA(prev) == { prev[k] : k \in { j \in DOMAIN prev : prev[j].boardId = BoardId } }

\* the list of board B has been loaded into the cache
LoadedB ==
    \E r \in Rids : /\ reqs[r].kind = "refetch" /\ reqs[r].board = OtherBoardId
                    /\ reqs[r].stage = "done" /\ reqs[r].ok

\* C36: once board A was left for board B, the continuation of a request that was
\* issued while A was open leaves the cache as it is, and from the moment B's list
\* has been loaded the cache holds no snapshot of an item of A.
C36_NoLateWriteAfterSwitch ==
    /\ [][\A r \in Rids : Left /\ Settles(r) /\ reqs[r].board = BoardId
            => items' = items]_vars
    /\ [](Left /\ LoadedB => OfBoardA(items) = {})

\* C37: once the socket of the open board has closed or errored, no socket is opened
\* for that board again: a socket is created by a board switch only, and as long as
\* the board stays open the socket stays closed, the connection stays not Connected
\* and the poll interval stays set, a firing of it setting it anew.
C37_NoReconnect ==
    /\ [][board' = board /\ sock' = "connecting" => sock = "connecting"]_vars
    /\ [](sock = "closed" => ~connected /\ pollAt # NoTime /\ pollBoard = board)
    /\ [][sock = "closed" /\ board' = board
            => sock' = "closed" /\ ~connected' /\ pollAt' # NoTime]_vars

\* the socket of the open board is closed and the connection not Connected, two poll
\* intervals have passed, a poll has asked for the items and the interval is set
C37_Witness ==
    /\ sock = "closed"
    /\ ~connected
    /\ pollAt > clock
    /\ clock >= 2 * PollInterval
    /\ \E r \in Rids : reqs[r].kind = "refetch" /\ ~reqs[r].auto

----------------------------------------------------------------------------
(* Bulk import *)

\* request q is the refetch that the completion of import r has issued
RefetchOf(q, r) ==
    /\ reqs[q].kind = "refetch" /\ reqs[q].of = r
    /\ reqs[q].board = reqs[r].board /\ reqs[q].incl = reqs[r].incl

\* the import in place r has completed
Completed(r) == r \in Rids /\ reqs[r].kind = "import" /\ reqs[r].stage = "answered"

\* C34: the step that handles the completion of an import, fulfilled or rejected,
\* leaves the cache as it is and sets the timeout; the timeout's step issues a
\* refetch of the board's items, so that every completed import is followed by its
\* refetch; and the step that handles the refetch's response makes the cache equal
\* to the returned list.
C34_ImportEndsInRefetch ==
    /\ [][\A r \in Rids :
            Completed(r) /\ reqs'[r].stage # "answered"
            => items' = items /\ reqs'[r].stage = "waiting"]_vars
    /\ [][\A r \in Rids :
            reqs[r].stage = "waiting" /\ reqs'[r].stage # "waiting"
            => /\ reqs'[r].stage = "done"
               /\ IssuesRefetch
               /\ reqs'[Len(reqs')].of = r
               /\ reqs'[Len(reqs')].board = reqs[r].board
               /\ reqs'[Len(reqs')].incl = reqs[r].incl
               /\ items' = items]_vars
    /\ [](\A r \in Rids : reqs[r].kind = "import" /\ reqs[r].stage = "done"
            => \E q \in Rids : RefetchOf(q, r))
    /\ [][\A q \in Rids :
            Settles(q) /\ reqs[q].kind = "refetch" /\ reqs[q].of # 0 /\ reqs[q].ok
            => items' = reqs[q].list]_vars
    /\ \A r \in ReqSlots : Completed(r) ~> (\E q \in ReqSlots : q \in Rids /\ RefetchOf(q, r))

\* an import was rejected and an import was fulfilled and created an item, each
\* was followed by its refetch, and the response of the refetch that followed the
\* rejected import has been put into the cache
C34_Witness ==
    \E r1, r2, q1, q2 \in Rids :
        /\ reqs[r1].kind = "import" /\ reqs[r1].stage = "done" /\ ~reqs[r1].ok
        /\ reqs[r2].kind = "import" /\ reqs[r2].stage = "done" /\ reqs[r2].ok
        /\ RefetchOf(q1, r1) /\ reqs[q1].stage = "done" /\ reqs[q1].ok
        /\ RefetchOf(q2, r2)
        /\ \E k \in DOMAIN items : items[k].id \notin InitIds

============================================================================
